---------------------------- MODULE Spec2Model ----------------------------
(***************************************************************************)
(* Model of game_agent.py: the Isolation game-playing agent CustomPlayer   *)
(* (get_move / try_move / minimax / alphabeta / alphabeta_common), its     *)
(* heuristics (custom_score, find_accessible, improved_salt_score) and the *)
(* symmetry cache (custom_cached_score, hash_key, rotate_coord).           *)
(*                                                                         *)
(* Scores are floats in the source.  Every finite score the modelled       *)
(* heuristics produce is a multiple of 1/60 (find_accessible adds          *)
(* 1/generation for generation 1..5), so a score s is kept as the integer  *)
(* 60*s (exact arithmetic; float rounding is not modelled).  float("inf")  *)
(* is the integer MAX_VAL, larger than every finite score.                 *)
(***************************************************************************)
EXTENDS Integers, Sequences, FiniteSets, TLC

(***************************************************************************)
(* Bounds of the model.                                                    *)
(***************************************************************************)
\* get_move is called only while game.move_count < MaxPlies
MaxPlies == 5
\* largest search_depth an agent is constructed with; cap of the
\* iterative-deepening depth counter when the depth is unbounded
MaxDepth == 3
\* the other player plays one of its first MaxOpp legal moves
MaxOpp == 2
\* scaled stand-in for CustomPlayer.MAX_CACHE_SIZE (40000 in the source);
\* like 40000 it is a multiple of 4, the number of keys one miss stores
MaxCacheSizeScaled == 8
\* number of custom_cached_score calls in one run of the cache model
MaxCalls == 3

(***************************************************************************)
(* Constants of the program.                                               *)
(***************************************************************************)
\* float("inf"), in units of 1/60
MAX_VAL == 1000000
MIN_VAL == -MAX_VAL
\* one unit of score: 1.0 is 60 sixtieths
Unit == 60
MAX_CACHE_DEPTH == 4
MAX_CACHE_SIZE == MaxCacheSizeScaled
NORTH == 0
EAST == 1
SOUTH == 2
WEST == 3
DIAG_1 == 4
DIAG_2 == 5
HORIZ == 6
VERT == 8
RECT_ROTATIONS == <<NORTH, SOUTH, HORIZ, VERT>>

(***************************************************************************)
(* isolation.Board, the collaborator game_agent.py consumes.  A game is a  *)
(* record: loc[p] the last move of player p (NOT_MOVED before the first),  *)
(* board_state the set of cells that are not BLANK, active the player to   *)
(* move, move_count the number of moves applied.                           *)
(***************************************************************************)
width == 3
height == 3
Players == {1, 2}
NOT_MOVED == <<>>
NoMove == <<-1, -1>>
Cells == {<<r, c>> : r \in 0..(height - 1), c \in 0..(width - 1)}

NewBoard == [loc |-> <<NOT_MOVED, NOT_MOVED>>, board_state |-> {},
             active |-> 1, move_count |-> 0]

get_opponent(game, player) == 3 - player

get_player_location(game, player) == game.loc[player]

move_is_legal(game, move) ==
    /\ 0 <= move[1] /\ move[1] < height
    /\ 0 <= move[2] /\ move[2] < width
    /\ move \notin game.board_state

\* [(i, j) for j in range(width) for i in range(height) if BLANK]
get_blank_spaces(game) ==
    SelectSeq([k \in 1..(width * height) |->
                   <<(k - 1) % height, (k - 1) \div height>>],
              LAMBDA m : move_is_legal(game, m))

directions == << <<-2, -1>>, <<-2, 1>>, <<-1, -2>>, <<-1, 2>>,
                 <<1, -2>>, <<1, 2>>, <<2, -1>>, <<2, 1>> >>

get_legal_moves(game, player) ==
    LET loc == game.loc[player]
    IN  IF loc = NOT_MOVED
        THEN get_blank_spaces(game)
        ELSE SelectSeq([i \in 1..8 |-> <<loc[1] + directions[i][1],
                                         loc[2] + directions[i][2]>>],
                       LAMBDA m : move_is_legal(game, m))

forecast_move(game, move) ==
    [loc |-> [game.loc EXCEPT ![game.active] = move],
     board_state |-> game.board_state \cup {move},
     active |-> 3 - game.active,
     move_count |-> game.move_count + 1]

is_loser(game, player) ==
    player = game.active /\ get_legal_moves(game, game.active) = <<>>

is_winner(game, player) ==
    player # game.active /\ get_legal_moves(game, game.active) = <<>>

Range(s) == {s[i] : i \in 1..Len(s)}

(***************************************************************************)
(* Heuristics.                                                             *)
(***************************************************************************)
\* the cells one knight move away from a cell of frontier that are legal
Neighbours(game, frontier) ==
    {m \in Cells : /\ move_is_legal(game, m)
                   /\ \E p \in frontier, i \in 1..8 :
                          m = <<p[1] + directions[i][1], p[2] + directions[i][2]>>}

\* the while loop of find_accessible: one iteration per generation
RECURSIVE flood(_, _, _, _, _, _)
flood(game, frontier, explored, access_rating, generation, max_generation) ==
    IF frontier # {} /\ generation <= max_generation
    THEN LET new_frontier == Neighbours(game, frontier) \ explored
         IN  flood(game, new_frontier, explored \cup new_frontier,
                   access_rating + Cardinality(new_frontier) * (Unit \div generation),
                   generation + 1, max_generation)
    ELSE [rating |-> access_rating, explored |-> explored]

find_accessible(game, player, max_generation) ==
    LET position == get_player_location(game, player)
    IN  IF position = NOT_MOVED
        THEN [rating |-> 0, explored |-> {}]
        ELSE flood(game, {position}, {}, 1 * Unit, 1, max_generation)

\* rnd is the value of random.random() * spice, in sixtieths (0..59)
custom_score(game, player, rnd) ==
    LET player_rating == find_accessible(game, player, 5).rating
        oppose_rating == find_accessible(game, get_opponent(game, player), 5).rating
    IN  IF player_rating = 0 THEN MIN_VAL
        ELSE IF oppose_rating = 0 THEN MAX_VAL
        ELSE (player_rating - oppose_rating)
             + (IF game.active = player THEN rnd ELSE 0)

improved_salt_score(game, player, rnd) ==
    IF is_loser(game, player) THEN MIN_VAL
    ELSE IF is_winner(game, player) THEN MAX_VAL
    ELSE (Len(get_legal_moves(game, player))
          - Len(get_legal_moves(game, get_opponent(game, player)))) * Unit
         + (IF game.active = player THEN rnd ELSE 0)

\* the mobility-difference heuristic: improved_salt_score without the spice
improved_score(game, player) ==
    IF is_loser(game, player) THEN MIN_VAL
    ELSE IF is_winner(game, player) THEN MAX_VAL
    ELSE (Len(get_legal_moves(game, player))
          - Len(get_legal_moves(game, get_opponent(game, player)))) * Unit

(***************************************************************************)
(* CustomPlayer.  An agent self is a record of the fields __init__ sets    *)
(* (search_depth, iterative, score, method, TIMER_THRESHOLD) and id, the   *)
(* player of the game the agent is.                                        *)
(*                                                                         *)
(* time_left is modelled as a clock that loses one tick each time it is    *)
(* read: clock is the value the next call of time_left() returns.          *)
(* seed stands for the state of the random generator: the draw a heuristic *)
(* makes at a leaf is taken from RandomDraws by the seed and the leaf.     *)
(***************************************************************************)
Methods == {"minimax", "alphabeta"}
ScoreFns == {"custom_score", "improved_salt_score", "improved_score"}
RandomDraws == <<0, 59>>
Seeds == 0..(Len(RandomDraws) - 1)
\* the heuristics that call random.random()
Randomized == {"custom_score", "improved_salt_score"}
\* what try_move returns when the search timed out
False == <<FALSE>>

CellSum(loc) == IF loc = NOT_MOVED THEN 0 ELSE loc[1] + 2 * loc[2]

\* random.random() * spice at the leaf `game`
draw(seed, game) ==
    RandomDraws[((seed + CellSum(game.loc[1]) + 3 * CellSum(game.loc[2]))
                 % Len(RandomDraws)) + 1]

\* self.score(step, self)
score_fn(self, game, seed) ==
    CASE self.score = "custom_score" ->
             custom_score(game, self.id, draw(seed, game))
      [] self.score = "improved_salt_score" ->
             improved_salt_score(game, self.id, draw(seed, game))
      [] OTHER -> improved_score(game, self.id)

\* cutoff with the comparison turned round
cutoff_flipped(prune, lower_bound, upper_bound) ==
    prune /\ lower_bound <= upper_bound

\* the test that ends the enumeration of moves early
cutoff(prune, lower_bound, upper_bound) == prune /\ lower_bound >= upper_bound

\* a result of alphabeta_common: (score, move), the clock after it, and
\* whether Timeout was raised (then score and move are what the frame held)
Result(score, move, clock, timeout) ==
    [score |-> score, move |-> move, clock |-> clock, timeout |-> timeout]

RECURSIVE alphabeta_common(_, _, _, _, _, _, _, _, _)
RECURSIVE for_moves(_, _, _, _, _, _, _, _, _, _, _, _, _)

\* the for loop of alphabeta_common from the i-th legal move on
for_moves(self, game, moves, i, depth, lower_bound, upper_bound, maximize, prune, best_score, move_picked, clock, seed) ==
    IF i > Len(moves) \/ cutoff(prune, lower_bound, upper_bound)
    THEN Result(best_score, move_picked, clock, FALSE)
    ELSE LET move == moves[i]
             step == forecast_move(game, move)
             r == IF depth <= 1
                  THEN Result(score_fn(self, step, seed), NoMove, clock, FALSE)
                  ELSE alphabeta_common(self, step, depth - 1, lower_bound,
                                        upper_bound, ~maximize, prune, clock, seed)
             raise == maximize /\ r.score > lower_bound
             lower == ~maximize /\ r.score < upper_bound
         IN  IF r.timeout
             THEN Result(best_score, move_picked, r.clock, TRUE)
             ELSE for_moves(self, game, moves, i + 1, depth,
                            IF raise THEN r.score ELSE lower_bound,
                            IF lower THEN r.score ELSE upper_bound,
                            maximize, prune,
                            IF raise \/ lower THEN r.score ELSE best_score,
                            IF raise \/ lower THEN move ELSE move_picked,
                            r.clock, seed)

alphabeta_common(self, game, depth, lower_bound, upper_bound, maximize, prune, clock, seed) ==
    IF clock < self.TIMER_THRESHOLD
    THEN Result(0, NoMove, clock, TRUE)
    ELSE for_moves(self, game, get_legal_moves(game, game.active), 1, depth,
                   lower_bound, upper_bound, maximize, prune,
                   IF maximize THEN MIN_VAL ELSE MAX_VAL, NoMove,
                   clock - 1, seed)

minimax(self, game, depth, clock, seed) ==
    alphabeta_common(self, game, depth, MIN_VAL, MAX_VAL, TRUE, FALSE, clock, seed)

alphabeta(self, game, depth, clock, seed) ==
    alphabeta_common(self, game, depth, MIN_VAL, MAX_VAL, TRUE, TRUE, clock, seed)

\* try_move without its except clause: Timeout leaves it
try_move_no_except(self, game, depth, clock, seed) ==
    LET r == IF self.method = "minimax" THEN minimax(self, game, depth, clock, seed)
             ELSE IF self.method = "alphabeta"
                  THEN alphabeta(self, game, depth, clock, seed)
                  ELSE Result(0, NoMove, clock, FALSE)
    IN  [move |-> r.move, clock |-> r.clock, raised |-> r.timeout]

\* try_move whose except clause returns move, still (-1, -1), not False
try_move_returns_move(self, game, depth, clock, seed) ==
    LET r == IF self.method = "minimax" THEN minimax(self, game, depth, clock, seed)
             ELSE IF self.method = "alphabeta"
                  THEN alphabeta(self, game, depth, clock, seed)
                  ELSE Result(0, NoMove, clock, FALSE)
    IN  IF r.timeout
        THEN [move |-> NoMove, clock |-> r.clock, raised |-> FALSE]
        ELSE [move |-> r.move, clock |-> r.clock, raised |-> FALSE]

\* try_move: [move, clock, raised]; raised says that Timeout left try_move
try_move(self, game, depth, clock, seed) ==
    LET r == IF self.method = "minimax" THEN minimax(self, game, depth, clock, seed)
             ELSE IF self.method = "alphabeta"
                  THEN alphabeta(self, game, depth, clock, seed)
                  ELSE Result(0, NoMove, clock, FALSE)
    IN  IF r.timeout
        THEN [move |-> False, clock |-> r.clock, raised |-> FALSE]
        ELSE [move |-> r.move, clock |-> r.clock, raised |-> FALSE]

(***************************************************************************)
(* The symmetry cache.  A key is str() of a list of ints in the source and *)
(* the sequence of those ints here.  score_cache maps a key to the score   *)
(* stored under it and, for the record, the player whose call stored it.   *)
(***************************************************************************)
rotate_coord(game, x, y, rotation) ==
    LET off_h == width - 1
        off_v == height - 1
    IN  CASE rotation = NORTH  -> <<x, y>>
          [] rotation = SOUTH  -> <<off_h - x, off_v - y>>
          [] rotation = EAST   -> <<y, off_h - x>>
          [] rotation = WEST   -> <<off_v - y, x>>
          [] rotation = HORIZ  -> <<off_h - x, y>>
          [] rotation = VERT   -> <<x, off_v - y>>
          [] rotation = DIAG_1 -> <<y, x>>
          [] rotation = DIAG_2 -> <<off_v - y, off_h - x>>
          [] OTHER -> <<x, y>>

\* the inner loop of hash_key, for y in range(height): its body assigns the
\* rotated coordinates to x and y themselves, so x stays rotated for the
\* next y, and the cell tested and appended is the rotated one
RECURSIVE hash_key_ys(_, _, _, _, _)
hash_key_ys(game, rotation, x, y, key) ==
    IF y >= height THEN key
    ELSE LET rc == rotate_coord(game, x, y, rotation)
         IN  hash_key_ys(game, rotation, rc[1], y + 1,
                         IF rc \in game.board_state
                         THEN key \o <<rc[1], rc[2]>> ELSE key)

\* the outer loop of hash_key, for x in range(width)
RECURSIVE hash_key_xs(_, _, _, _)
hash_key_xs(game, rotation, x, key) ==
    IF x >= width THEN key
    ELSE hash_key_xs(game, rotation, x + 1,
                     hash_key_ys(game, rotation, x, 0, key))

\* defined when both players have moved (the source unpacks both locations)
hash_key(game, rotation) ==
    LET p1 == get_player_location(game, 1)
        p2 == get_player_location(game, 2)
        r1 == rotate_coord(game, p1[1], p1[2], rotation)
        r2 == rotate_coord(game, p2[1], p2[2], rotation)
    IN  hash_key_xs(game, rotation, 0, <<r1[1], r1[2], r2[1], r2[2]>>)

\* custom_cached_score: the value returned, whether it was a hit, whose
\* entry was hit, and the cache after the call
custom_cached_score(cache, game, player, rnd) ==
    LET keys == [i \in 1..Len(RECT_ROTATIONS) |-> hash_key(game, RECT_ROTATIONS[i])]
        hits == {i \in 1..Len(keys) : keys[i] \in DOMAIN cache}
        first == CHOOSE i \in hits : \A j \in hits : i <= j
        score == custom_score(game, player, rnd)
        store == /\ Cardinality(DOMAIN cache) < MAX_CACHE_SIZE
                 /\ game.move_count < MAX_CACHE_DEPTH
    IN  IF hits # {}
        THEN [score |-> cache[keys[first]].score, hit |-> TRUE,
              by |-> cache[keys[first]].by, stored |-> FALSE, cache |-> cache]
        ELSE [score |-> score, hit |-> FALSE, by |-> player, stored |-> store,
              cache |-> IF store
                        THEN [k \in DOMAIN cache \cup Range(keys) |->
                                 IF k \in Range(keys)
                                 THEN [score |-> score, by |-> player]
                                 ELSE cache[k]]
                        ELSE cache]

(***************************************************************************)
(* The state: one CustomPlayer playing one side of a game against an       *)
(* arbitrary opponent, and the frame of its running get_move call.         *)
(***************************************************************************)
VARIABLES
    self,       \* the agent, NoAgent before __init__
    game,       \* the board
    pc,         \* "new", "idle", "loop" (in get_move's while), "done", "over"
    clock,      \* what time_left() returns next
    seed,       \* the random generator's state in this call
    max_depth,  \* get_move's local
    depth,      \* get_move's local
    best_move,  \* get_move's local; the value returned when pc = "done"
    timed_out,  \* the while loop was left by break
    escaped,    \* an exception left get_move
    score_cache,    \* CustomPlayer.score_cache, the class attribute
    cache_hits,     \* cache_hits[p] of agent p
    cache_misses,   \* cache_misses[p] of agent p
    calls,          \* number of custom_cached_score calls so far
    last,           \* the last custom_cached_score call
    stored_states   \* the calls whose score was stored: game, player, score

search_vars == <<self, game, pc, clock, seed, max_depth, depth, best_move,
                 timed_out, escaped>>
cache_vars == <<score_cache, cache_hits, cache_misses, calls, last,
               stored_states>>
vars == <<search_vars, cache_vars>>

NoAgent == [id |-> 0, search_depth |-> 0, iterative |-> FALSE, score |-> "",
            method |-> "", TIMER_THRESHOLD |-> 0]
NoCall == [game |-> NewBoard, player |-> 0, hit |-> FALSE, score |-> 0,
           by |-> 0, stored |-> FALSE]

\* the arguments __init__ is called with
SearchDepths == {-1} \cup (1..MaxDepth)
MethodArgs == Methods \cup {"negamax"}
TimeoutArgs == {0, 1}
\* the clocks get_move is called with
StartClocks == {0, 2, 6, 30, 200}

Init ==
    /\ self = NoAgent
    /\ game = NewBoard
    /\ pc = "new"
    /\ clock = 0
    /\ seed = 0
    /\ max_depth = 0
    /\ depth = 0
    /\ best_move = NoMove
    /\ timed_out = FALSE
    /\ escaped = FALSE
    /\ score_cache = <<>>
    /\ cache_hits = [p \in Players |-> 0]
    /\ cache_misses = [p \in Players |-> 0]
    /\ calls = 0
    /\ last = NoCall
    /\ stored_states = {}

\* CustomPlayer.__init__: every argument is stored as given
CustomPlayer_init(id, search_depth, score, iterative, method, timeout) ==
    [id |-> id, search_depth |-> search_depth, iterative |-> iterative,
     score |-> score, method |-> method, TIMER_THRESHOLD |-> timeout]

Construct ==
    /\ pc = "new"
    /\ \E id \in Players, search_depth \in SearchDepths, score \in ScoreFns,
          iterative \in BOOLEAN, method \in MethodArgs, timeout \in TimeoutArgs :
          self' = CustomPlayer_init(id, search_depth, score, iterative, method, timeout)
    /\ pc' = "idle"
    /\ UNCHANGED <<game, clock, seed, max_depth, depth, best_move, timed_out,
                   escaped, cache_vars>>

\* the other player moves: any legal move
OpponentMove ==
    /\ pc = "idle"
    /\ game.active # self.id
    /\ game.move_count < MaxPlies
    /\ \E i \in 1..MaxOpp :
          /\ i <= Len(get_legal_moves(game, game.active))
          /\ game' = forecast_move(game, get_legal_moves(game, game.active)[i])
    /\ UNCHANGED <<self, pc, clock, seed, max_depth, depth, best_move,
                   timed_out, escaped, cache_vars>>

\* get_move up to its while loop
GetMoveCall ==
    /\ pc = "idle"
    /\ game.active = self.id
    /\ game.move_count < MaxPlies
    /\ clock' \in StartClocks
    /\ seed' \in (IF self.score \in Randomized THEN Seeds ELSE {0})
    /\ max_depth' = self.search_depth
    /\ depth' = IF self.iterative THEN 1 ELSE self.search_depth
    /\ best_move' = NoMove
    /\ timed_out' = FALSE
    /\ pc' = "loop"
    /\ UNCHANGED <<self, game, escaped, cache_vars>>

\* one iteration of get_move's while loop, or the return after it
GetMoveLoop ==
    /\ pc = "loop"
    /\ IF max_depth <= 0 \/ depth <= max_depth
       THEN \* the cap on depth; a search that times out at its first
            \* poll is modelled at any depth
            /\ \/ depth <= MaxDepth
               \/ self.method \in Methods /\ clock < self.TIMER_THRESHOLD
            /\ \E r \in {try_move(self, game, depth, clock, seed)} :
                   /\ clock' = r.clock
                   /\ escaped' = r.raised
                   /\ IF r.raised
                      THEN /\ pc' = "done"
                           /\ UNCHANGED <<best_move, depth, timed_out>>
                      ELSE IF r.move = False
                      THEN /\ pc' = "done"
                           /\ timed_out' = TRUE
                           /\ UNCHANGED <<best_move, depth>>
                      ELSE /\ best_move' = r.move
                           /\ depth' = depth + 1
                           /\ UNCHANGED <<pc, timed_out>>
       ELSE /\ pc' = "done"
            /\ UNCHANGED <<clock, escaped, best_move, depth, timed_out>>
    /\ UNCHANGED <<self, game, seed, max_depth, cache_vars>>

\* get_move has returned best_move: the caller applies it (a move that is
\* not legal ends the game) and the frame of the call is gone
ApplyMove ==
    /\ pc = "done"
    /\ IF best_move \in Range(get_legal_moves(game, game.active))
       THEN /\ game' = forecast_move(game, best_move)
            /\ pc' = "idle"
       ELSE /\ pc' = "over"
            /\ UNCHANGED game
    /\ clock' = 0
    /\ seed' = 0
    /\ max_depth' = 0
    /\ depth' = 0
    /\ best_move' = NoMove
    /\ timed_out' = FALSE
    /\ UNCHANGED <<self, escaped, cache_vars>>

Next == Construct \/ OpponentMove \/ GetMoveCall \/ GetMoveLoop \/ ApplyMove

Spec == Init /\ [][Next]_vars

(***************************************************************************)
(* Properties of the search engine, checked under Spec.                    *)
(***************************************************************************)
LegalMoves == Range(get_legal_moves(game, game.active))

\* a search that is never cut off: time_left() stays at MAX_VAL
Forever == MAX_VAL

\* the search a fixed-depth agent with the method of self runs at depth d
Direct(d) ==
    IF self.method = "minimax" THEN minimax(self, game, d, Forever, seed)
    ELSE alphabeta(self, game, d, Forever, seed)

\* the score function of self makes no random draw in a search of depth d:
\* custom_score and improved_salt_score draw only when the state they rate
\* has `player` to move, which is so at the leaves of a search of even depth
Deterministic(d) == self.score \notin Randomized \/ d % 2 = 1

WellFormed == self.method \in Methods /\ self.TIMER_THRESHOLD > 0

\* C1: the move get_move returns is a legal move of the active player
\* whenever one exists, and (-1, -1) only when none exists
C1_ReturnsLegalMove ==
    pc = "done" =>
        IF LegalMoves # {} THEN best_move \in LegalMoves ELSE best_move = NoMove

\* C2: for every state, depth d >= 1 and deterministic score function,
\* alphabeta and minimax, neither timing out, return the same (score, move)
C2_PruningKeepsResult ==
    pc = "idle" =>
        \A d \in 1..MaxDepth :
            Deterministic(d) =>
                LET ab == alphabeta(self, game, d, Forever, seed)
                    mm == minimax(self, game, d, Forever, seed)
                IN  ab.score = mm.score /\ ab.move = mm.move

\* a state where alphabeta leaves out nodes minimax visits, and picks a move
C2_Witness ==
    /\ pc = "idle"
    /\ \E d \in 1..MaxDepth :
          /\ Deterministic(d)
          /\ alphabeta(self, game, d, Forever, seed).clock
                 > minimax(self, game, d, Forever, seed).clock
          /\ minimax(self, game, d, Forever, seed).move # NoMove

\* C3: with iterative deepening and a deterministic score function, when
\* get_move returns after the searches at depths 1..k completed (the search
\* at depth k+1 cut off by the timeout, or k the depth limit), it returns the
\* move of a direct search at depth k
C3_ReturnsLastCompletedDepth ==
    (/\ pc = "done"
     /\ self.iterative
     /\ self.method \in Methods
     /\ depth >= 2
     /\ Deterministic(depth - 1))
        => best_move = Direct(depth - 1).move

\* get_move returned after the search at depth 3 timed out and the one at
\* depth 2 did not, and the search at depth 3 would have picked another move
C3_Witness ==
    /\ pc = "done"
    /\ timed_out
    /\ self.iterative
    /\ self.method \in Methods
    /\ depth = 3
    /\ Deterministic(2)
    /\ best_move # NoMove
    /\ Direct(3).move # best_move

\* C4: with either search method, a step of get_move lets no Timeout escape
\* and leaves a move value in best_move, and once time_left() is below
\* TIMER_THRESHOLD the next step is get_move's return
C4_TimeoutNeverEscapes ==
    [][(pc = "loop" /\ self.method \in Methods) =>
          /\ ~escaped'
          /\ best_move' \in Cells \cup {NoMove}
          /\ (clock < self.TIMER_THRESHOLD => pc' = "done")]_vars

\* get_move, its depth unbounded, is in its loop beyond depth 1 with the
\* clock below the threshold
C4_Witness ==
    /\ pc = "loop"
    /\ self.method \in Methods
    /\ max_depth <= 0
    /\ depth > 1
    /\ clock < self.TIMER_THRESHOLD

\* C5: custom_score is the loss sentinel whenever no cell is reachable from
\* the player's position, find_accessible rating such a position 0, and the
\* win sentinel whenever the opponent's reachable set is empty and the
\* player's is not
C5_SentinelWhenIsolated ==
    \A p \in Players :
        LET own == find_accessible(game, p, 5)
            opp == find_accessible(game, get_opponent(game, p), 5)
        IN  /\ own.explored = {} =>
                /\ own.rating = 0
                /\ \A rnd \in Range(RandomDraws) :
                       custom_score(game, p, rnd) = MIN_VAL
            /\ (own.explored # {} /\ opp.explored = {}) =>
                \A rnd \in Range(RandomDraws) :
                    custom_score(game, p, rnd) = MAX_VAL

\* C7: no agent with a non-positive timeout or an unknown method exists
C7_MalformedRejected == pc # "new" => WellFormed

\* the depth-limited minimax value of a state: the heuristic at the cutoff,
\* the sentinel of the side to move where it has no move
RECURSIVE minimax_value(_, _, _)
minimax_value(g, d, maximize) ==
    LET moves == get_legal_moves(g, g.active)
        value(i) == IF d <= 1 THEN score_fn(self, forecast_move(g, moves[i]), seed)
                    ELSE minimax_value(forecast_move(g, moves[i]), d - 1, ~maximize)
        values == {value(i) : i \in 1..Len(moves)}
    IN  IF moves = <<>> THEN (IF maximize THEN MIN_VAL ELSE MAX_VAL)
        ELSE IF maximize THEN CHOOSE v \in values : \A w \in values : w <= v
        ELSE CHOOSE v \in values : \A w \in values : v <= w

\* C10: a completed minimax search from a root with a legal move returns the
\* depth-limited minimax value of the root and the first move, in the order
\* of get_legal_moves, whose subtree has that value
C10_MinimaxValueAndFirstBestMove ==
    (pc = "idle" /\ game.active = self.id /\ LegalMoves # {}) =>
        \A d \in 1..MaxDepth :
            Deterministic(d) =>
                LET moves == get_legal_moves(game, game.active)
                    mm == minimax(self, game, d, Forever, seed)
                    sub(i) == IF d <= 1
                              THEN score_fn(self, forecast_move(game, moves[i]), seed)
                              ELSE minimax_value(forecast_move(game, moves[i]),
                                                 d - 1, FALSE)
                    first == CHOOSE i \in 1..Len(moves) :
                                 /\ sub(i) = minimax_value(game, d, TRUE)
                                 /\ \A j \in 1..(i - 1) : sub(j) # sub(i)
                IN  /\ mm.score = minimax_value(game, d, TRUE)
                    /\ mm.move = moves[first]

(***************************************************************************)
(* The cache model: two CustomPlayer instances are players 1 and 2 of one  *)
(* game.  The game is played to some position in which both sides can be   *)
(* rated one move ahead, and then the two instances rate the states one    *)
(* move ahead with custom_cached_score, in any order (the leaves of a      *)
(* search of depth 1).  score_cache is the class attribute both instances  *)
(* read and write; the counters are per instance.                          *)
(***************************************************************************)
InitCache ==
    /\ self = NoAgent
    /\ game \in {forecast_move(NewBoard, c) : c \in Cells}
    /\ pc = "new"
    /\ clock = 0
    /\ seed = 0
    /\ max_depth = 0
    /\ depth = 0
    /\ best_move = NoMove
    /\ timed_out = FALSE
    /\ escaped = FALSE
    /\ score_cache = <<>>
    /\ cache_hits = [p \in Players |-> 0]
    /\ cache_misses = [p \in Players |-> 0]
    /\ calls = 0
    /\ last = NoCall
    /\ stored_states = {}

CachedScore ==
    /\ calls < MaxCalls
    /\ \E m \in Range(get_legal_moves(game, game.active)), player \in Players,
          rnd \in Range(RandomDraws) :
          \E r \in {custom_cached_score(score_cache, forecast_move(game, m),
                                        player, rnd)} :
             /\ score_cache' = r.cache
             /\ cache_hits' = [cache_hits EXCEPT ![player] = @ + (IF r.hit THEN 1 ELSE 0)]
             /\ cache_misses' = [cache_misses EXCEPT ![player] = @ + (IF r.hit THEN 0 ELSE 1)]
             /\ last' = [game |-> forecast_move(game, m), player |-> player,
                         hit |-> r.hit, score |-> r.score, by |-> r.by,
                         stored |-> r.stored]
             /\ stored_states' = IF r.stored
                                 THEN stored_states \cup
                                      {[game |-> forecast_move(game, m),
                                        player |-> player, score |-> r.score]}
                                 ELSE stored_states
    /\ calls' = calls + 1
    /\ UNCHANGED search_vars

\* a move of the game, before the first state is rated
PlayMove ==
    /\ calls = 0
    /\ game.move_count < MAX_CACHE_DEPTH - 1
    /\ \E i \in 1..MaxOpp :
          /\ i <= Len(get_legal_moves(game, game.active))
          /\ game' = forecast_move(game, get_legal_moves(game, game.active)[i])
    /\ UNCHANGED <<self, pc, clock, seed, max_depth, depth, best_move,
                   timed_out, escaped, cache_vars>>

NextCache == PlayMove \/ CachedScore

SpecCache == InitCache /\ [][NextCache]_vars

(***************************************************************************)
(* Properties of the cache, checked under SpecCache.                       *)
(***************************************************************************)
\* the image of a state under a symmetry of the board
Image(g, rotation) ==
    [loc |-> [p \in Players |-> rotate_coord(g, g.loc[p][1], g.loc[p][2], rotation)],
     board_state |-> {rotate_coord(g, c[1], c[2], rotation) : c \in g.board_state},
     active |-> g.active,
     move_count |-> g.move_count]

\* C6: after custom_cached_score(S, player) missed and stored its score, a
\* call custom_cached_score(S', player) on the image S' of S under identity,
\* 180-degree rotation or an axis reflection is a hit: it returns the stored
\* score and adds one to cache_hits, and the heuristic is not computed again
C6_SymmetricStateHits ==
    [][(/\ calls' = calls + 1
        /\ \E s \in stored_states :
              /\ s.player = last'.player
              /\ \E i \in 1..Len(RECT_ROTATIONS) :
                    last'.game = Image(s.game, RECT_ROTATIONS[i]))
       => /\ last'.hit
          /\ cache_hits'[last'.player] = cache_hits[last'.player] + 1
          /\ cache_misses' = cache_misses
          /\ \E s \in stored_states :
                /\ last'.score = s.score
                /\ \E i \in 1..Len(RECT_ROTATIONS) :
                      last'.game = Image(s.game, RECT_ROTATIONS[i])]_vars

\* C8: score_cache never holds more than MAX_CACHE_SIZE entries
C8_CacheBounded == Cardinality(DOMAIN score_cache) <= MAX_CACHE_SIZE

\* C9: a hit returns an entry the asking agent's own call stored
C9_OwnCacheOnly == last.hit => last.by = last.player

=============================================================================
